---- MODULE Spec2Model ----
(***************************************************************************)
(* FeatureAnalysis (survivalnet/analysis/FeatureAnalysis.py): the feature  *)
(* ranking and the sequencing of the renderer, savefig and exporter calls. *)
(*                                                                         *)
(* Conventions.  A matrix is a sequence of rows (samples), a row a         *)
(* sequence of columns (features).  Indices are 1-based: Order[k] of the   *)
(* model is Order[k-1]+1 of the code.  A string that the code takes apart  *)
(* (a feature symbol) is a sequence of one-character strings; a file name  *)
(* is the sequence of the pieces the code concatenates.  A float is an     *)
(* exact reduced fraction <<num, den>> with den > 0, and <<0, 0>> is NaN   *)
(* (the 0/0 of a zero-norm row); gradient rows are drawn from the rows     *)
(* whose Euclidean norm is an integer, so that the fractions are exact.    *)
(***************************************************************************)
EXTENDS Integers, Sequences, FiniteSets, TLC

(* ------------------------------ bounds -------------------------------- *)
NumFeatures == 2
MaxGrad == 1
RankFeatures == 3
RankMaxVal == 2

(* ------------------------------ helpers ------------------------------- *)
None == <<"None">>

Abs(x) == IF x < 0 THEN -x ELSE x

Min(a, b) == IF a < b THEN a ELSE b

Max(a, b) == IF a > b THEN a ELSE b

RECURSIVE GCD(_, _)
GCD(a, b) == IF b = 0 THEN a ELSE GCD(b, a % b)

NaN == <<0, 0>>

IsNaN(q) == q[2] = 0

Frac(n, d) == LET g == GCD(Abs(n), d) IN <<n \div g, d \div g>>

\* x / n in floating point, for a norm n >= 0 (and x = 0 whenever n = 0)
Div(x, n) == IF n = 0 THEN NaN ELSE Frac(x, n)

FAdd(p, q) == IF IsNaN(p) \/ IsNaN(q) THEN NaN
              ELSE Frac(p[1] * q[2] + q[1] * p[2], p[2] * q[2])

FAbs(q) == <<Abs(q[1]), q[2]>>

FNeg(q) == <<-q[1], q[2]>>

\* a < b on floats; false as soon as one side is NaN
FLess(p, q) == ~IsNaN(p) /\ ~IsNaN(q) /\ p[1] * q[2] < q[1] * p[2]

RECURSIVE FSum(_)
FSum(s) == IF s = <<>> THEN <<0, 1>> ELSE FAdd(Head(s), FSum(Tail(s)))

RECURSIVE SumSq(_)
SumSq(row) == IF row = <<>> THEN 0 ELSE Head(row) * Head(row) + SumSq(Tail(row))

IsSquare(n) == \E r \in 0..n : r * r = n

NCols(M) == IF M = <<>> THEN 0 ELSE Len(M[1])

(* --------------------------- numpy / python --------------------------- *)
\* np.linalg.norm(row)
Norm(row) == CHOOSE r \in 0..SumSq(row) : r * r = SumSq(row)

\* mutant: the rows are left as they are
NormalizeRows_raw(G) ==
    [i \in 1..Len(G) |-> [j \in 1..Len(G[i]) |-> Frac(G[i][j], 1)]]

\* Gradients / np.outer(np.linalg.norm(Gradients, axis=1), ones)
NormalizeRows(G) ==
    [i \in 1..Len(G) |-> [j \in 1..Len(G[i]) |-> Div(G[i][j], Norm(G[i]))]]

\* np.mean(Gradients, axis=0)
ColumnMeans(G) ==
    [j \in 1..NCols(G) |->
        LET s == FSum([i \in 1..Len(G) |-> G[i][j]])
        IN IF IsNaN(s) THEN NaN ELSE Frac(s[1], s[2] * Len(G))]

\* mutant: the sign of the mean is kept
SortKeys_signed(M) == [j \in 1..Len(M) |-> FNeg(M[j])]

\* -np.abs(Means)
SortKeys(M) == [j \in 1..Len(M) |-> FNeg(FAbs(M[j]))]

\* the order of the sort: a before b; a NaN sorts after every number
SortLess(a, b) == FLess(a, b) \/ (IsNaN(b) /\ ~IsNaN(a))

Perms(n) ==
    {p \in [1..n -> 1..n] : \A a, b \in 1..n : p[a] = p[b] => a = b}

\* np.argsort(keys), kind='quicksort': every index once, keys ascending, the
\* order of equal keys unspecified (the default kind is not a stable sort)
ArgSort(keys) ==
    {p \in Perms(Len(keys)) :
        \A a, b \in 1..Len(keys) : a < b => ~SortLess(keys[p[b]], keys[p[a]])}

\* len(range(N)) for a python slice 0:N of a dimension of length n
SliceLen(n, N) == IF N >= 0 THEN Min(N, n) ELSE Max(n + N, 0)

\* M[:, 0:N]
SliceCols(M, N) == [i \in 1..Len(M) |-> SubSeq(M[i], 1, SliceLen(Len(M[i]), N))]

\* mutant: the columns stay in input order
TakeCols_unranked(M, Ord) == M

\* M[:, Order]
TakeCols(M, Ord) == [i \in 1..Len(M) |-> [k \in 1..Len(Ord) |-> M[i][Ord[k]]]]

\* [L[i] for i in Order]
TakeList(L, Ord) == [k \in 1..Len(Ord) |-> L[Ord[k]]]

\* [L[i] for i in np.arange(N)] raises IndexError when N > len(L)
IndexError(L, N) == N > Len(L)

\* [L[i] for i in np.arange(N)] otherwise; np.arange(N) is empty for N <= 0
FirstN(L, N) == SubSeq(L, 1, Max(N, 0))

\* str.strip()
RECURSIVE LStrip(_)
LStrip(s) == IF s # <<>> /\ Head(s) = " " THEN LStrip(Tail(s)) ELSE s

RECURSIVE RStrip(_)
RStrip(s) == IF s # <<>> /\ s[Len(s)] = " " THEN RStrip(SubSeq(s, 1, Len(s) - 1)) ELSE s

Strip(s) == LStrip(RStrip(s))

(* ------------------------ collaborators' contracts -------------------- *)
WrapWidth == 1

\* position of the last "_" of s, 0 when there is none
RECURSIVE RFind(_, _)
RFind(s, n) == IF n = 0 THEN 0 ELSE IF s[n] = "_" THEN n ELSE RFind(s, n - 1)

\* _SplitSymbols: the label without its surrounding whitespace and type suffix
SplitName(s) == LET t == Strip(s)
                    u == RFind(t, Len(t))
                IN IF u = 0 THEN t ELSE SubSeq(t, 1, u - 1)

\* _SplitSymbols: the type tag, the text after the last "_"
SplitType(s) == LET t == Strip(s)
                    u == RFind(t, Len(t))
                IN IF u = 0 THEN <<>> ELSE SubSeq(t, u + 1, Len(t))

\* _WrapSymbols: a line break after every WrapWidth characters of a long label
RECURSIVE Wrap(_)
Wrap(s) == IF Len(s) <= WrapWidth THEN s
           ELSE SubSeq(s, 1, WrapWidth) \o <<"\n">> \o Wrap(SubSeq(s, WrapWidth + 1, Len(s)))

\* RankedBox, PairScatter, RiskCluster: the figure shows what the call was given
Figure(fn, X, R, S, T) == [fn |-> fn, X |-> X, Raw |-> R, Symbols |-> S, Types |-> T]

\* KMPlots: one figure per feature column it is given
KMFigures(X, R, S, T) ==
    [k \in 1..NCols(X) |-> [fn |-> "KMPlots", feature |-> k,
                            X |-> [r \in 1..Len(X) |-> X[r][k]],
                            Symbol |-> IF k <= Len(S) THEN S[k] ELSE <<>>]]

(* ------------------------------- state -------------------------------- *)
VARIABLES Model, Raw, Symbols, NBox, NScatter, NKM, NCluster, Path,
          Corrected, Types, Wrapped, Gradients, Means, Order,
          cSymbols, cTypes, cRaw, cGradients,
          RBFig, PSGradFig, PSFeatFig, CFig, KMFigs, i,
          pc, calls, files, raised, result

inputs == <<Model, Raw, Symbols, NBox, NScatter, NKM, NCluster, Path>>

ranked == <<Means, Order, cSymbols, cTypes, cRaw, cGradients>>

figs == <<RBFig, PSGradFig, PSFeatFig, CFig, KMFigs>>

vars == <<Model, Raw, Symbols, NBox, NScatter, NKM, NCluster, Path,
          Corrected, Types, Wrapped, Gradients, Means, Order,
          cSymbols, cTypes, cRaw, cGradients,
          RBFig, PSGradFig, PSFeatFig, CFig, KMFigs, i,
          pc, calls, files, raised, result>>

F == Len(Symbols)

(* ------------------------------- inputs ------------------------------- *)
\* gradient rows with integer entries and an integer Euclidean norm
Rows(n, lo, hi) == {r \in [1..n -> lo..hi] : IsSquare(SumSq(r))}

\* the raw feature matrix: every column is told from every other
RawOf(m, n) == [r \in 1..m |-> [j \in 1..n |-> 10 * j + r]]

Letter(j) == <<"a", "b", "c", "d", "e", "f">>[j]

\* labels 'aa_M', ' b_C ', 'c_M ', 'dd_M', ... ; pairwise distinct after strip
PlainSymbols(n) ==
    [j \in 1..n |-> IF j % 3 = 1 THEN <<Letter(j), Letter(j), "_", "M">>
                    ELSE IF j % 3 = 2 THEN <<" ", Letter(j), "_", "C", " ">>
                    ELSE <<Letter(j), "_", "M", " ">>]

\* the same, but the first two labels differ in surrounding whitespace only
PaddedSymbols(n) ==
    [j \in 1..n |-> IF j = 2 THEN <<" ">> \o PlainSymbols(n)[1] ELSE PlainSymbols(n)[j]]

Unset == <<>>

InitLocals ==
    /\ Corrected = Unset /\ Types = Unset /\ Wrapped = Unset
    /\ Gradients = Unset /\ Means = Unset /\ Order = Unset
    /\ cSymbols = Unset /\ cTypes = Unset /\ cRaw = Unset /\ cGradients = Unset
    /\ RBFig = Unset /\ PSGradFig = Unset /\ PSFeatFig = Unset /\ CFig = Unset
    /\ KMFigs = Unset /\ i = 0
    /\ calls = <<>> /\ files = <<>> /\ raised = <<>> /\ result = <<>>

Init ==
    /\ Symbols \in {PlainSymbols(NumFeatures), PaddedSymbols(NumFeatures)}
    /\ Model \in {<<r>> : r \in Rows(NumFeatures, 0, MaxGrad)}
    /\ Raw = RawOf(Len(Model), NumFeatures)
    /\ NBox \in -1..NumFeatures + 1
    /\ NScatter \in -1..NumFeatures + 1
    /\ NKM \in -1..NumFeatures + 1
    /\ NCluster \in -1..NumFeatures + 1
    /\ Path \in {None, <<"out/">>}
    /\ pc = "split"
    /\ InitLocals

(* ------------------------------ the run ------------------------------- *)
\* mutant: the exception is swallowed and the run goes on
AfterRaise_swallow(next) == next

\* an exception is caught nowhere: it ends the run
AfterRaise(next) == "raised"

Raise(kind, next) ==
    /\ pc' = AfterRaise(next)
    /\ raised' = <<pc, kind>>

\* lines 62-63
SplitStep ==
    /\ pc = "split"
    /\ Corrected' = [j \in 1..F |-> SplitName(Symbols[j])]
    /\ Types' = [j \in 1..F |-> SplitType(Symbols[j])]
    /\ Wrapped' = [j \in 1..F |-> Wrap(SplitName(Symbols[j]))]
    /\ pc' = "cohort"
    /\ UNCHANGED <<inputs, Gradients, ranked, figs, i, calls, files, raised, result>>

\* line 67: RiskCohort returns the gradients of the model, or raises
CohortStep ==
    /\ pc = "cohort"
    /\ calls' = Append(calls, [fn |-> "RiskCohort"])
    /\ \/ /\ Gradients' = Model
          /\ pc' = "normalize"
          /\ UNCHANGED raised
       \/ /\ Raise("CollaboratorError", "normalize")
          /\ UNCHANGED Gradients
    /\ UNCHANGED <<inputs, Corrected, Types, Wrapped, ranked, figs, i, files, result>>

\* lines 70-71
NormalizeStep ==
    /\ pc = "normalize"
    /\ Gradients' = NormalizeRows(Gradients)
    /\ pc' = "means"
    /\ UNCHANGED <<inputs, Corrected, Types, Wrapped, ranked, figs, i, calls, files,
                   raised, result>>

\* line 74
MeansStep ==
    /\ pc = "means"
    /\ Means' = ColumnMeans(Gradients)
    /\ pc' = "argsort"
    /\ UNCHANGED <<inputs, Corrected, Types, Wrapped, Gradients, Order, cSymbols, cTypes,
                   cRaw, cGradients, figs, i, calls, files, raised, result>>

\* lines 75-79
OrderStep ==
    /\ pc = "argsort"
    /\ \E o \in ArgSort(SortKeys(Means)) :
          /\ Order' = o
          /\ cSymbols' = TakeList(Wrapped, o)
          /\ cTypes' = TakeList(Types, o)
          /\ cRaw' = TakeCols(Raw, o)
          /\ cGradients' = TakeCols(Gradients, o)
    /\ pc' = "box"
    /\ UNCHANGED <<inputs, Corrected, Types, Wrapped, Gradients, Means, figs, i, calls,
                   files, raised, result>>

\* lines 83-86
BoxStep ==
    /\ pc = "box"
    /\ IF IndexError(cSymbols, NBox)
       THEN Raise("IndexError", "psgrad") /\ UNCHANGED <<RBFig, calls>>
       ELSE LET fig == Figure("RankedBox", SliceCols(cGradients, NBox), <<>>,
                              FirstN(cSymbols, NBox), FirstN(cTypes, NBox))
            IN /\ calls' = Append(calls, fig)
               /\ \/ RBFig' = fig /\ pc' = "psgrad" /\ UNCHANGED raised
                  \/ Raise("CollaboratorError", "psgrad") /\ UNCHANGED RBFig
    /\ UNCHANGED <<inputs, Corrected, Types, Wrapped, Gradients, ranked,
                   PSGradFig, PSFeatFig, CFig, KMFigs, i, files, result>>

\* lines 90-92
PSGradStep ==
    /\ pc = "psgrad"
    /\ IF IndexError(cSymbols, NScatter)
       THEN Raise("IndexError", "psfeat") /\ UNCHANGED <<PSGradFig, calls>>
       ELSE LET fig == Figure("PairScatter.Gradient", SliceCols(cGradients, NScatter), <<>>,
                              FirstN(cSymbols, NScatter), FirstN(cTypes, NScatter))
            IN /\ calls' = Append(calls, fig)
               /\ \/ PSGradFig' = fig /\ pc' = "psfeat" /\ UNCHANGED raised
                  \/ Raise("CollaboratorError", "psfeat") /\ UNCHANGED PSGradFig
    /\ UNCHANGED <<inputs, Corrected, Types, Wrapped, Gradients, ranked,
                   RBFig, PSFeatFig, CFig, KMFigs, i, files, result>>

\* lines 96-98
PSFeatStep ==
    /\ pc = "psfeat"
    /\ IF IndexError(cSymbols, NScatter)
       THEN Raise("IndexError", "cluster") /\ UNCHANGED <<PSFeatFig, calls>>
       ELSE LET fig == Figure("PairScatter.Feature", <<>>, SliceCols(cRaw, NScatter),
                              FirstN(cSymbols, NScatter), FirstN(cTypes, NScatter))
            IN /\ calls' = Append(calls, fig)
               /\ \/ PSFeatFig' = fig /\ pc' = "cluster" /\ UNCHANGED raised
                  \/ Raise("CollaboratorError", "cluster") /\ UNCHANGED PSFeatFig
    /\ UNCHANGED <<inputs, Corrected, Types, Wrapped, Gradients, ranked,
                   RBFig, PSGradFig, CFig, KMFigs, i, files, result>>

\* lines 102-105
ClusterStep ==
    /\ pc = "cluster"
    /\ IF IndexError(cSymbols, NCluster)
       THEN Raise("IndexError", "km") /\ UNCHANGED <<CFig, calls>>
       ELSE LET fig == Figure("RiskCluster", SliceCols(cGradients, NCluster),
                              SliceCols(cRaw, NCluster),
                              FirstN(cSymbols, NCluster), FirstN(cTypes, NCluster))
            IN /\ calls' = Append(calls, fig)
               /\ \/ CFig' = fig /\ pc' = "km" /\ UNCHANGED raised
                  \/ Raise("CollaboratorError", "km") /\ UNCHANGED CFig
    /\ UNCHANGED <<inputs, Corrected, Types, Wrapped, Gradients, ranked,
                   RBFig, PSGradFig, PSFeatFig, KMFigs, i, files, result>>

\* lines 109-112
KMStep ==
    /\ pc = "km"
    /\ IF IndexError(cSymbols, NKM)
       THEN Raise("IndexError", "save") /\ UNCHANGED <<KMFigs, calls>>
       ELSE LET X == SliceCols(cGradients, NKM)
                R == SliceCols(cRaw, NKM)
                S == FirstN(cSymbols, NKM)
                T == FirstN(cTypes, NKM)
            IN /\ calls' = Append(calls, Figure("KMPlots", X, R, S, T))
               /\ \/ KMFigs' = KMFigures(X, R, S, T) /\ pc' = "save" /\ UNCHANGED raised
                  \/ Raise("CollaboratorError", "save") /\ UNCHANGED KMFigs
    /\ UNCHANGED <<inputs, Corrected, Types, Wrapped, Gradients, ranked,
                   RBFig, PSGradFig, PSFeatFig, CFig, i, files, result>>

(* ---------------------------- persistence ----------------------------- *)
\* mutant: the figures are saved whatever Path is
SaveEnabled_always == TRUE

\* line 116: if Path is not None
SaveEnabled == Path # None

\* mutant: the ordering and the figures are returned
ReturnValue_artifacts == <<Order, RBFig, PSGradFig, PSFeatFig, CFig, KMFigs>>

\* the function has no return statement
ReturnValue == None

\* mutant: the label at the unranked position
KMFileName_unranked(k) == Path \o <<"KM.">> \o Strip(Symbols[k]) \o <<".pdf">>

\* line 124: Path + 'KM.' + Symbols[Order[i]].strip() + '.pdf', for the k-th figure
KMFileName(k) == Path \o <<"KM.">> \o Strip(Symbols[Order[k]]) \o <<".pdf">>

\* mutant: the rank file is given the ranked labels and scores
RNKCall_ranked == [fn |-> "WriteRNK", Symbols |-> TakeList(Corrected, Order),
                   Ranks |-> TakeList(Means, Order), File |-> Path \o <<"Gradients.rnk">>]

\* line 127: WriteRNK(Corrected, Means, Path + 'Gradients.rnk')
RNKCall == [fn |-> "WriteRNK", Symbols |-> Corrected, Ranks |-> Means,
            File |-> Path \o <<"Gradients.rnk">>]

\* line 128: WriteGCT(Corrected, None, Gradients, Path + 'Gradients.gct')
GCTCall == [fn |-> "WriteGCT", Symbols |-> Corrected, Descriptions |-> None,
            X |-> Gradients, File |-> Path \o <<"Gradients.gct">>]

\* Figure.savefig(name): the file is written, or the call raises
SaveFig(fig, name, next) ==
    /\ calls' = Append(calls, [fn |-> "savefig", File |-> name])
    /\ \/ /\ files' = Append(files, [File |-> name, Content |-> fig])
          /\ pc' = next
          /\ UNCHANGED raised
       \/ /\ Raise("CollaboratorError", next)
          /\ UNCHANGED files

locals == <<Corrected, Types, Wrapped, Gradients, ranked, figs>>

\* line 116
SaveGuard ==
    /\ pc = "save"
    /\ IF SaveEnabled
       THEN pc' = "save_rb" /\ UNCHANGED result
       ELSE pc' = "done" /\ result' = ReturnValue
    /\ UNCHANGED <<inputs, locals, i, calls, files, raised>>

\* line 119
SaveRankedBox ==
    /\ pc = "save_rb"
    /\ SaveFig(RBFig, Path \o <<"RankedBox.pdf">>, "save_psgrad")
    /\ UNCHANGED <<inputs, locals, i, result>>

\* line 120
SavePSGrad ==
    /\ pc = "save_psgrad"
    /\ SaveFig(PSGradFig, Path \o <<"PairedScatter.Gradient.pdf">>, "save_psfeat")
    /\ UNCHANGED <<inputs, locals, i, result>>

\* line 121
SavePSFeat ==
    /\ pc = "save_psfeat"
    /\ SaveFig(PSFeatFig, Path \o <<"PairedScatter.Feature.pdf">>, "save_heatmap")
    /\ UNCHANGED <<inputs, locals, i, result>>

\* line 122
SaveHeatmap ==
    /\ pc = "save_heatmap"
    /\ SaveFig(CFig, Path \o <<"Heatmap.pdf">>, "save_km")
    /\ UNCHANGED <<inputs, locals, i, result>>

\* lines 123-124: one turn of the loop; i counts the figures already handled
SaveKM ==
    /\ pc = "save_km"
    /\ IF i < Len(KMFigs)
       THEN /\ SaveFig(KMFigs[i + 1], KMFileName(i + 1), "save_km")
            /\ i' = i + 1
       ELSE /\ pc' = "rnk"
            /\ UNCHANGED <<i, calls, files, raised>>
    /\ UNCHANGED <<inputs, locals, result>>

\* an exporter writes its file, or raises
Export(call, next) ==
    /\ calls' = Append(calls, call)
    /\ \/ /\ files' = Append(files, [File |-> call.File, Content |-> call])
          /\ pc' = next
          /\ UNCHANGED raised
       \/ /\ Raise("CollaboratorError", next)
          /\ UNCHANGED files

\* line 127
WriteRNKStep ==
    /\ pc = "rnk"
    /\ Export(RNKCall, "gct")
    /\ UNCHANGED <<inputs, locals, i, result>>

\* line 128
WriteGCTStep ==
    /\ pc = "gct"
    /\ Export(GCTCall, "return")
    /\ UNCHANGED <<inputs, locals, i, result>>

\* the end of the function body
ReturnStep ==
    /\ pc = "return"
    /\ pc' = "done"
    /\ result' = ReturnValue
    /\ UNCHANGED <<inputs, locals, i, calls, files, raised>>

Next ==
    \/ SplitStep \/ CohortStep \/ NormalizeStep \/ MeansStep \/ OrderStep
    \/ BoxStep \/ PSGradStep \/ PSFeatStep \/ ClusterStep \/ KMStep
    \/ SaveGuard \/ SaveRankedBox \/ SavePSGrad \/ SavePSFeat \/ SaveHeatmap \/ SaveKM
    \/ WriteRNKStep \/ WriteGCTStep \/ ReturnStep

Spec == Init /\ [][Next]_vars

(* ------------------- the ranking alone, on score arrays --------------- *)
\* importance scores: the fractions n/d of small n and d, and NaN
RankScores ==
    {Frac(n, d) : n \in -RankMaxVal..RankMaxVal, d \in 1..RankMaxVal} \cup {NaN}

InitRank ==
    /\ Symbols = PlainSymbols(RankFeatures)
    /\ Model = <<>> /\ Raw = <<>>
    /\ NBox = 0 /\ NScatter = 0 /\ NKM = 0 /\ NCluster = 0
    /\ Path = None
    /\ Corrected = [j \in 1..RankFeatures |-> SplitName(Symbols[j])]
    /\ Types = [j \in 1..RankFeatures |-> SplitType(Symbols[j])]
    /\ Wrapped = [j \in 1..RankFeatures |-> Wrap(SplitName(Symbols[j]))]
    /\ Gradients = <<>>
    /\ Means \in [1..RankFeatures -> RankScores]
    /\ Order = Unset
    /\ cSymbols = Unset /\ cTypes = Unset /\ cRaw = Unset /\ cGradients = Unset
    /\ RBFig = Unset /\ PSGradFig = Unset /\ PSFeatFig = Unset /\ CFig = Unset
    /\ KMFigs = Unset /\ i = 0
    /\ calls = <<>> /\ files = <<>> /\ raised = <<>> /\ result = <<>>
    /\ pc = "argsort"

NextRank == OrderStep

SpecRank == InitRank /\ [][NextRank]_vars

(* ---------------- the 4 x 5 scenario of the specification ------------- *)
ScenarioGradients ==
    << <<1, 0, 0, 0, 0>>, <<0, 2, 0, 0, 0>>, <<0, 0, 0, 0, 3>>, <<0, 0, 0, 4, 0>> >>

ScenarioSymbols == << <<"a">>, <<"b">>, <<"c">>, <<"d">>, <<"e">> >>

InitScenario ==
    /\ Symbols = ScenarioSymbols
    /\ Model = ScenarioGradients
    /\ Raw = RawOf(Len(ScenarioGradients), Len(ScenarioSymbols))
    /\ NBox = 2
    /\ NScatter \in {0, 2, 10}
    /\ NKM \in {0, 5, 10}
    /\ NCluster \in {2, 5, 100}
    /\ Path \in {None, <<"out/">>}
    /\ pc = "split"
    /\ InitLocals

SpecScenario == InitScenario /\ [][Next]_vars

(* ============================== claims ================================ *)
Col(M, j) == [r \in 1..Len(M) |-> M[r][j]]

Renderers == {"RankedBox", "PairScatter.Gradient", "PairScatter.Feature",
              "RiskCluster", "KMPlots"}

Exporters == {"WriteRNK", "WriteGCT"}

\* the truncation count a renderer call is made with
CountOf(fn) == CASE fn = "RankedBox" -> NBox
                 [] fn = "PairScatter.Gradient" -> NScatter
                 [] fn = "PairScatter.Feature" -> NScatter
                 [] fn = "RiskCluster" -> NCluster
                 [] fn = "KMPlots" -> NKM

GetsGradients(fn) == fn # "PairScatter.Feature"

GetsRaw(fn) == fn \in {"PairScatter.Feature", "RiskCluster", "KMPlots"}

CallsTo(fns) == {n \in 1..Len(calls) : calls[n].fn \in fns}

Called(fn) == CallsTo({fn}) # {}

IsPermutation(o, n) == Len(o) = n /\ \A j \in 1..n : \E k \in 1..n : o[k] = j

Identity(o) == \A k \in 1..Len(o) : o[k] = k

CountsValid == \A N \in {NBox, NScatter, NKM, NCluster} : N \in 0..F

\* t is s without its leading and trailing blanks
IsStripOf(t, s) ==
    /\ t = <<>> \/ (t[1] # " " /\ t[Len(t)] # " ")
    /\ \E a \in 0..Len(s) : \E b \in a..Len(s) :
          /\ t = SubSeq(s, a + 1, b)
          /\ \A n \in 1..a : s[n] = " "
          /\ \A n \in (b + 1)..Len(s) : s[n] = " "

(* C1, as stated: both exporters receive the data in ranked order, position *)
(* k holding the label, score and gradient column of feature Order[k].      *)
C1_ExportersRanked ==
    \A n \in CallsTo(Exporters) :
        /\ Len(calls[n].Symbols) = F
        /\ \A k \in 1..F :
              /\ calls[n].Symbols[k] = Corrected[Order[k]]
              /\ calls[n].fn = "WriteRNK" => calls[n].Ranks[k] = Means[Order[k]]
              /\ calls[n].fn = "WriteGCT" => Col(calls[n].X, k) = Col(Gradients, Order[k])

(* C1, amended: the exporters run only when Path is given, and receive the  *)
(* full untruncated data in the original input order: position k holds the  *)
(* unwrapped label, the score and the normalized gradient column of feature *)
(* k, whatever the ordering and the truncation counts are.                  *)
C1_ExportersUnranked ==
    \A n \in CallsTo(Exporters) :
        /\ Path # None
        /\ Len(calls[n].Symbols) = F
        /\ calls[n].fn = "WriteRNK" => Len(calls[n].Ranks) = F
        /\ calls[n].fn = "WriteGCT" => NCols(calls[n].X) = F
        /\ \A k \in 1..F :
              /\ calls[n].Symbols[k] = Corrected[k]
              /\ calls[n].fn = "WriteRNK" => calls[n].Ranks[k] = Means[k]
              /\ calls[n].fn = "WriteGCT" => Col(calls[n].X, k) = Col(Gradients, k)

C1_Witness ==
    /\ Called("WriteRNK") /\ Called("WriteGCT")
    /\ ~Identity(Order)
    /\ NBox < F

(* C2, as stated: a count equal to the feature count hands the consumer      *)
(* every feature; a count above the feature count or below zero never        *)
(* reaches a renderer (the run is rejected with a configuration error), and  *)
(* no renderer is handed a matrix whose column count differs from the length *)
(* of its label and type lists.                                              *)
C2_CountsValidated ==
    /\ \A n \in CallsTo(Renderers) :
          LET c == calls[n]
              N == CountOf(c.fn)
          IN /\ N \in 0..F
             /\ Len(c.Types) = Len(c.Symbols)
             /\ GetsGradients(c.fn) => NCols(c.X) = Len(c.Symbols)
             /\ GetsRaw(c.fn) => NCols(c.Raw) = Len(c.Symbols)
             /\ N = F => Len(c.Symbols) = F
    /\ raised # <<>> /\ raised[2] # "CollaboratorError" => raised[2] = "ConfigurationError"

(* C3: each renderer call made with a count N in 0..F receives exactly the  *)
(* first N columns of the one ranked dataset: N labels, N types, N columns, *)
(* the k-th of each belonging to feature Order[k]; and once Order is set it *)
(* is never assigned again.                                                 *)
C3_RankedPrefix ==
    \A n \in CallsTo(Renderers) :
        LET c == calls[n]
            N == CountOf(c.fn)
        IN N \in 0..F =>
              /\ Len(c.Symbols) = N /\ Len(c.Types) = N
              /\ GetsGradients(c.fn) => NCols(c.X) = N
              /\ GetsRaw(c.fn) => NCols(c.Raw) = N
              /\ \A k \in 1..N :
                    /\ c.Symbols[k] = Wrapped[Order[k]]
                    /\ c.Types[k] = Types[Order[k]]
                    /\ GetsGradients(c.fn) => Col(c.X, k) = Col(Gradients, Order[k])
                    /\ GetsRaw(c.fn) => Col(c.Raw, k) = Col(Raw, Order[k])

C3_RenderersGetRankedPrefix ==
    /\ [](C3_RankedPrefix)
    /\ [][Order # Unset => Order' = Order]_vars

C3_Witness ==
    /\ \A fn \in Renderers : Called(fn)
    /\ ~Identity(Order)
    /\ NBox = F /\ NScatter = 1 /\ NCluster = F /\ NKM = 1

(* C4, as stated: in the scenario the ordering is led by d then e, and the  *)
(* boxplot renderer receives exactly d and e in that order.                 *)
C4_BoxGetsDE ==
    \A n \in CallsTo({"RankedBox"}) :
        /\ Order[1] = 4 /\ Order[2] = 5
        /\ calls[n].Symbols = << <<"d">>, <<"e">> >>

(* C4, amended: in the scenario every row is normalized to a unit vector,   *)
(* so a, b, d and e all score 1/4 and c scores 0: c is ranked last, the     *)
(* order of a, b, d, e among themselves is whatever the sort makes of four  *)
(* equal keys, and the boxplot renderer receives the two labels at ranks 1  *)
(* and 2, which are two of a, b, d, e and need not be d, e.                 *)
C4_ScenarioTie ==
    /\ Means # Unset =>
          Means = << <<1, 4>>, <<1, 4>>, <<0, 1>>, <<1, 4>>, <<1, 4>> >>
    /\ Order # Unset => IsPermutation(Order, 5) /\ Order[5] = 3
    /\ \A n \in CallsTo({"RankedBox"}) :
          /\ Len(calls[n].Symbols) = 2
          /\ \A k \in 1..2 : /\ calls[n].Symbols[k] = Symbols[Order[k]]
                             /\ calls[n].Symbols[k] # <<"c">>
                             /\ Col(calls[n].X, k) = Col(Gradients, Order[k])

C4_Witness ==
    \E n \in CallsTo({"RankedBox"}) : calls[n].Symbols = << <<"a">>, <<"b">> >>

(* C5: every Kaplan-Meier figure that is saved, the k-th, is saved under    *)
(* Path + 'KM.' + t + '.pdf' where t is the original label of feature       *)
(* Order[k] without its surrounding blanks; and with a Path, once the loop  *)
(* is through with a count NKM in 0..F, figures 1..NKM have all been saved. *)
C5_KMFileNames ==
    /\ \A n \in 1..Len(files) :
          files[n].Content.fn = "KMPlots" =>
              \E t \in {SubSeq(files[n].File, Len(Path) + 2, Len(files[n].File) - 1)} :
                  /\ files[n].File = Path \o <<"KM.">> \o t \o <<".pdf">>
                  /\ IsStripOf(t, Symbols[Order[files[n].Content.feature]])
    /\ Path # None /\ pc \in {"rnk", "gct", "return", "done"} /\ NKM \in 0..F =>
          /\ Len(KMFigs) = NKM
          /\ \A k \in 1..NKM : \E n \in 1..Len(files) : files[n].Content = KMFigs[k]

C5_Witness ==
    /\ pc = "done" /\ Path # None
    /\ NKM = F
    /\ ~Identity(Order)
    /\ \E n \in 1..Len(files) :
          /\ files[n].Content.fn = "KMPlots"
          /\ files[n].Content.feature = 1
          /\ Symbols[Order[1]][1] = " "
          /\ files[n].File # Path \o <<"KM.">> \o Symbols[Order[1]] \o <<".pdf">>
          /\ files[n].File # Path \o <<"KM.">> \o Wrapped[Order[1]] \o <<".pdf">>

(* C6: without a Path nothing is persisted: no file is written, and neither *)
(* savefig nor an exporter is ever called.                                  *)
C6_NoPathNoPersistence ==
    Path = None => files = <<>> /\ CallsTo(Exporters \cup {"savefig"}) = {}

C6_Witness ==
    /\ pc = "done" /\ Path = None
    /\ \A fn \in Renderers : Called(fn)

(* C7, as stated: a completed run without a Path returns a result that      *)
(* holds the in-memory artifacts.                                           *)
C7_ReturnsRunResult ==
    pc = "done" /\ Path = None => result # None

(* C7, amended: a completed run, with or without a Path, returns None; the  *)
(* ordering and the figures it built are not handed to the caller.          *)
C7_ReturnsNone ==
    pc = "done" => /\ result = None
                   /\ Order # Unset
                   /\ \A fn \in Renderers : Called(fn)

C7_Witness ==
    pc = "done" /\ Path = None /\ result = None /\ Len(KMFigs) = F

(* C8, as stated: with a Path, valid counts and no collaborator failing,    *)
(* the completed run has written exactly the six fixed files and NKM        *)
(* distinct KM files, one per Kaplan-Meier feature.                         *)
FixedFiles == {Path \o <<name>> : name \in {"RankedBox.pdf", "PairedScatter.Gradient.pdf",
                  "PairedScatter.Feature.pdf", "Heatmap.pdf", "Gradients.rnk",
                  "Gradients.gct"}}

Written == {files[n].File : n \in 1..Len(files)}

C8_AllFilesWritten ==
    pc = "done" /\ Path # None /\ CountsValid =>
        /\ FixedFiles \subseteq Written
        /\ Cardinality(Written \ FixedFiles) = NKM
        /\ Cardinality(Written) = 6 + NKM

(* C9, as stated: Rank returns a permutation of the feature indices, by     *)
(* descending absolute score, equal absolute scores in index order.         *)
Sorted(o) ==
    \A a, b \in 1..Len(o) :
        a < b => \/ IsNaN(Means[o[b]])
                 \/ /\ ~IsNaN(Means[o[a]])
                    /\ ~FLess(FAbs(Means[o[a]]), FAbs(Means[o[b]]))

Tied(x, y) == FAbs(x) = FAbs(y)

C9_StableRank ==
    Order # Unset =>
        /\ IsPermutation(Order, F)
        /\ Sorted(Order)
        /\ \A a, b \in 1..F :
              a < b /\ Tied(Means[Order[a]], Means[Order[b]]) => Order[a] < Order[b]

(* C9, amended: Rank returns a permutation of the feature indices, every    *)
(* index once, by descending absolute score with NaN scores last; the order *)
(* of features with equal absolute score is not fixed.                      *)
C9_RankSorted ==
    Order # Unset => IsPermutation(Order, F) /\ Sorted(Order)

C9_Witness ==
    /\ Order # Unset
    /\ \E a, b \in 1..F : /\ a < b /\ Order[a] > Order[b]
                          /\ FLess(FAbs(Means[Order[b]]), FAbs(Means[Order[a]]))
    /\ \E j \in 1..F : ~IsNaN(Means[j]) /\ Means[j][1] < 0

(* C10: an exception ends the run: once one is raised no collaborator is    *)
(* called and no file is written any more, and when it was raised by the    *)
(* gradient provider or by a renderer no file has been written at all.      *)
RenderSteps == {"cohort", "box", "psgrad", "psfeat", "cluster", "km"}

C10_FirstErrorAborts ==
    /\ [][raised # <<>> => UNCHANGED <<calls, files, figs, pc>>]_vars
    /\ [](raised # <<>> /\ raised[1] \in RenderSteps => files = <<>>)

C10_Witness ==
    /\ raised = <<"cluster", "CollaboratorError">>
    /\ Path # None /\ CountsValid
    /\ pc = "raised" /\ files = <<>>
    /\ Called("RiskCluster") /\ ~Called("KMPlots")

====
